---- MODULE Spec2Model ----
(***************************************************************************)
(* Model of dockerhook-server.py: a Flask webhook receiver that maps a     *)
(* GitHub push or a Docker Hub push to a deployment (docker pull, stop,    *)
(* rm, run) of one of two environments.                                    *)
(*                                                                         *)
(* Strings the program only compares or passes on are TLA+ strings.        *)
(* Strings the program takes apart (the git ref, the signature header) are *)
(* sequences of one-character strings.  An f-string is the sequence of its *)
(* parts.  A docker argv is a sequence of arguments, each a sequence of    *)
(* parts.                                                                  *)
(***************************************************************************)
EXTENDS Integers, Sequences, FiniteSets, TLC

VARIABLES
    environ,      \* os.environ at start-up: a set of <<name, value>> pairs
    containers,   \* the containers the docker daemon holds
    before,       \* the daemon's containers when the server started
    pc,           \* per request: idle, pull, stop, rm, run, done
    request,      \* per request: its headers and body
    call,         \* per request: the frame of update_container / deploy_container
    cmds,         \* per request: the docker commands it has issued, with return codes
    response,     \* per request: the HTTP response
    verified,     \* the last call of verify_signature and its outcome
    result,       \* per request: what update_container / deploy_container returned
    get           \* the last GET request (/health, /status, /) and its answer

vars == <<environ, containers, before, pc, request, call, cmds, response, verified,
          result, get>>

\* Number of webhook requests the server handles concurrently.
NumReq == 2

Reqs == 1..NumReq

\* Python's None, for a value that is otherwise a string / a character sequence.
None == "None"
NoneSeq == <<None>>

(***************************************************************************)
(* String literals of the source, as character sequences.                  *)
(***************************************************************************)
RefsHeads == <<"r", "e", "f", "s", "/", "h", "e", "a", "d", "s", "/">>
Develop == <<"d", "e", "v", "e", "l", "o", "p">>
Master == <<"m", "a", "s", "t", "e", "r">>
Sha256 == <<"s", "h", "a", "2", "5", "6">>

\* s[i..] as a sequence
Drop(s, n) == SubSeq(s, n + 1, Len(s))

StartsWith(s, p) == Len(s) >= Len(p) /\ SubSeq(s, 1, Len(p)) = p

\* str.replace(old, new): every non-overlapping occurrence, left to right
RECURSIVE Replace(_, _, _)
Replace(s, old, new) ==
    IF Len(s) < Len(old) THEN s
    ELSE IF StartsWith(s, old) THEN new \o Replace(Drop(s, Len(old)), old, new)
    ELSE <<Head(s)>> \o Replace(Tail(s), old, new)

\* index of the first sep in s, 0 when there is none
RECURSIVE Find(_, _)
Find(s, sep) ==
    IF s = <<>> THEN 0
    ELSE IF Head(s) = sep THEN 1
    ELSE LET k == Find(Tail(s), sep) IN IF k = 0 THEN 0 ELSE k + 1

\* str.split(sep): the list of the pieces between the separators
RECURSIVE Split(_, _)
Split(s, sep) ==
    LET k == Find(s, sep) IN
    IF k = 0 THEN <<s>>
    ELSE <<SubSeq(s, 1, k - 1)>> \o Split(Drop(s, k), sep)

(***************************************************************************)
(* Configuration (lines 17-37): os.getenv with its default.                *)
(***************************************************************************)
Getenv(name, default) ==
    IF \E p \in environ : p[1] = name
    THEN (CHOOSE p \in environ : p[1] = name)[2]
    ELSE default

WEBHOOK_SECRET == Getenv("WEBHOOK_SECRET", "your-secret-key-here")
DOCKER_REGISTRY == Getenv("DOCKER_REGISTRY", "patabudlong")
DOCKER_IMAGE_NAME == Getenv("DOCKER_IMAGE_NAME", "tripbundles-website")
DEV_CONTAINER_NAME == Getenv("DEV_CONTAINER_NAME", "tripbundles-dev")
DEV_HOST_PORT == Getenv("DEV_HOST_PORT", "3001")
DEV_CONTAINER_PORT == Getenv("DEV_CONTAINER_PORT", "3000")
DEV_IMAGE_TAG == Getenv("DEV_IMAGE_TAG", "latest-dev")
NODE_ENV_DEV == Getenv("NODE_ENV_DEV", "development")
PROD_CONTAINER_NAME == Getenv("PROD_CONTAINER_NAME", "tripbundles-prod")
PROD_HOST_PORT == Getenv("PROD_HOST_PORT", "3000")
PROD_CONTAINER_PORT == Getenv("PROD_CONTAINER_PORT", "3000")
PROD_IMAGE_TAG == Getenv("PROD_IMAGE_TAG", "latest")
NODE_ENV_PROD == Getenv("NODE_ENV_PROD", "production")

\* The environments the server is started in: no variable set, and the image
\* tags (and the secret) set to other values than the defaults.
Environs ==
    { {},
      { <<"DEV_IMAGE_TAG", "staging">>, <<"PROD_IMAGE_TAG", "stable">> },
      { <<"WEBHOOK_SECRET", "s3cret">>, <<"DEV_IMAGE_TAG", "latest">>,
        <<"PROD_IMAGE_TAG", "v1">> },
      { <<"DEV_CONTAINER_NAME", "web">>, <<"PROD_CONTAINER_NAME", "web-prod">> } }

\* f"{DOCKER_REGISTRY}/{DOCKER_IMAGE_NAME}:{tag}"
ImageName(tag) == <<DOCKER_REGISTRY, "/", DOCKER_IMAGE_NAME, ":", tag>>

(***************************************************************************)
(* Request bodies.  A body is an index into Payloads; get_json parses it.  *)
(***************************************************************************)
EmptyObject == [k \in {} |-> None]

Obj(o) == [kind |-> "object", obj |-> o]

Registry(tag) == Obj([push_data |-> [tag |-> tag], repository |-> [repo_name |-> "acme/app"]])

Payloads ==
    << [kind |-> "malformed", obj |-> EmptyObject],   \* not JSON: get_json raises
       [kind |-> "null", obj |-> EmptyObject],        \* get_json returns None
       Obj(EmptyObject),
       Obj([ref |-> RefsHeads \o Develop]),
       Obj([ref |-> RefsHeads \o Master]),
       Obj([ref |-> RefsHeads \o <<"M", "A", "S", "T", "E", "R">>]),
       Obj([ref |-> RefsHeads \o <<"f", "e", "a", "t", "u", "r", "e", "/", "x">>]),
       Obj([ref |-> RefsHeads]),
       Obj([ref |-> <<"r", "e", "f", "s", "/", "t", "a", "g", "s", "/">> \o Master]),
       Obj([ref |-> RefsHeads \o RefsHeads \o Master]),
       Registry("latest-dev"),
       Registry("latest"),
       Registry("staging"),
       Registry("stable"),
       Registry("v1"),
       Registry("v2"),
       Obj([push_data |-> [pushed_at |-> "0"], repository |-> [repo_name |-> "acme/app"]]),
       Obj([push_data |-> [tag |-> "latest"]]),
       Obj([ref |-> RefsHeads \o Master, push_data |-> [tag |-> "latest-dev"],
            repository |-> [repo_name |-> "acme/app"]]) >>

Bodies == 1..Len(Payloads)

\* Bodies that start a deployment with every variable at its default.
DeployBodies == {b \in Bodies : Payloads[b] \in
    {Obj([ref |-> RefsHeads \o Develop]), Obj([ref |-> RefsHeads \o Master]),
     Registry("latest-dev"), Registry("latest")}}

\* request.get_json()
get_json(body) ==
    [raised |-> Payloads[body].kind = "malformed",
     isNone |-> Payloads[body].kind = "null",
     obj |-> Payloads[body].obj]

\* Values of the X-GitHub-Event header (None: the header is absent).
Events == {None, "", "push", "ping"}

(***************************************************************************)
(* verify_signature (lines 64-74).  HMAC-SHA256 is modelled by a keyed     *)
(* digest of two lowercase hexadecimal digits: hexdigest() yields          *)
(* lowercase digits, and the digest depends on the secret and on the body. *)
(***************************************************************************)
HexDigits == <<"0", "1", "2", "3", "4", "5", "6", "7",
               "8", "9", "a", "b", "c", "d", "e", "f">>

SecretCode(secret) ==
    CASE secret = "your-secret-key-here" -> 171
      [] secret = "s3cret" -> 94
      [] OTHER -> 29

\* hmac.new(secret.encode(), payload_body, hashlib.sha256).hexdigest()
HmacHexdigest(secret, payload_body) ==
    LET n == (SecretCode(secret) + 37 * payload_body) % 256
    IN  <<HexDigits[(n \div 16) + 1], HexDigits[(n % 16) + 1]>>

\* hmac.compare_digest(a, b): equality of the two strings, character by character
compare_digest(a, b) == a = b

\* "True", "False", or the exception that leaves the function
verify_signature(payload_body, signature_header) ==
    IF signature_header = NoneSeq \/ signature_header = <<>> THEN "False"
    ELSE LET parts == Split(signature_header, "=") IN
         IF Len(parts) # 2 THEN "ValueError"     \* sha_name, signature = ...
         ELSE LET sha_name == parts[1]
                  signature == parts[2]
              IN  IF sha_name # Sha256 THEN "False"
                  ELSE IF compare_digest(HmacHexdigest(WEBHOOK_SECRET, payload_body),
                                         signature)
                       THEN "True" ELSE "False"

UpperChar(c) ==
    CASE c = "a" -> "A" [] c = "b" -> "B" [] c = "c" -> "C"
      [] c = "d" -> "D" [] c = "e" -> "E" [] c = "f" -> "F" [] OTHER -> c

Upper(s) == [i \in 1..Len(s) |-> UpperChar(s[i])]

\* A digest of the same length that differs in its first digit.
OtherDigest(d) == <<IF d[1] = "0" THEN "1" ELSE "0">> \o Tail(d)

\* Values of the X-Hub-Signature-256 header sent with a body (NoneSeq: absent).
SignatureHeaders(body) ==
    LET d == HmacHexdigest(WEBHOOK_SECRET, body) IN
    { NoneSeq,
      <<>>,
      Sha256 \o <<"=">> \o d,
      Sha256 \o <<"=">> \o Upper(d),
      Sha256 \o <<"=">> \o OtherDigest(d),
      <<"s", "h", "a", "1", "=">> \o d,
      Sha256,
      d,
      Sha256 \o <<"=">> \o d \o <<"=">> }

(***************************************************************************)
(* The docker daemon, as the subprocess calls see it.  A command is an     *)
(* argv; the daemon answers with a return code and its new containers.     *)
(* `fault` is what goes wrong outside the program's control (registry or   *)
(* daemon unreachable, port taken, image that does not start).             *)
(***************************************************************************)
A(x) == <<x>>

Named(cs, name) == {c \in cs : c.name = name}

\* docker pull IMAGE
DockerPull(cs, argv, fault) ==
    [returncode |-> IF fault = "none" THEN 0 ELSE 1, containers |-> cs]

\* docker stop NAME: no such container is an error; a stopped one stays stopped
DockerStop(cs, argv, fault) ==
    LET name == argv[3][1] IN
    IF fault # "none" \/ Named(cs, name) = {}
    THEN [returncode |-> 1, containers |-> cs]
    ELSE [returncode |-> 0,
          containers |-> {IF c.name = name /\ c.state = "running"
                          THEN [c EXCEPT !.state = "exited"] ELSE c : c \in cs}]

\* docker rm NAME: refuses a running container (no -f)
DockerRm(cs, argv, fault) ==
    LET name == argv[3][1] IN
    IF fault # "none" \/ Named(cs, name) = {}
       \/ \E c \in Named(cs, name) : c.state = "running"
    THEN [returncode |-> 1, containers |-> cs]
    ELSE [returncode |-> 0, containers |-> cs \ Named(cs, name)]

\* Mutant of DockerRun: the name given with --name is not checked against the
\* containers that exist.
DockerRunNameUnchecked(cs, argv, fault, by) ==
    LET new(st) == [name |-> argv[5][1], image |-> argv[Len(argv)], state |-> st,
                    by |-> by]
    IN  IF fault = "error" THEN [returncode |-> 1, containers |-> cs]
        ELSE IF fault = "created"
        THEN [returncode |-> 1, containers |-> cs \cup {new("created")}]
        ELSE [returncode |-> 0, containers |-> cs \cup {new("running")}]

\* docker run -d --name NAME ... IMAGE: refuses a name that is in use; a
\* container that is created and then fails to start stays, not running
DockerRun(cs, argv, fault, by) ==
    LET name == argv[5][1]
        image == argv[Len(argv)]
        new(st) == [name |-> name, image |-> image, state |-> st, by |-> by]
    IN  IF fault = "error" \/ Named(cs, name) # {}
        THEN [returncode |-> 1, containers |-> cs]
        ELSE IF fault = "created"
        THEN [returncode |-> 1, containers |-> cs \cup {new("created")}]
        ELSE [returncode |-> 0, containers |-> cs \cup {new("running")}]

\* The characters of the container names the environments configure.
NameChars(name) ==
    CASE name = "tripbundles-dev" -> <<"t", "r", "i", "p", "b", "u", "n", "d", "l", "e", "s", "-", "d", "e", "v">>
      [] name = "tripbundles-prod" -> <<"t", "r", "i", "p", "b", "u", "n", "d", "l", "e", "s", "-", "p", "r", "o", "d">>
      [] name = "web" -> <<"w", "e", "b">>
      [] name = "web-prod" -> <<"w", "e", "b", "-", "p", "r", "o", "d">>

\* p in s, as Python's `in` on strings
Contains(s, p) ==
    \E i \in 0..(Len(s) - Len(p)) : SubSeq(s, i + 1, i + Len(p)) = p

\* The running containers that `docker ps --filter name=NAME` lists: the filter
\* matches all or part of a container's name.
PsMatches(cs, name) ==
    {c \in cs : c.state = "running" /\ Contains(NameChars(c.name), NameChars(name))}

\* docker ps --filter name=NAME --format {{.Status}}: one line "Up" for each
\* listed container; nothing on stdout when the daemon cannot be reached
DockerPs(cs, argv, fault) ==
    LET name == argv[4][2] IN
    IF fault # "none"
    THEN [returncode |-> 1, stdout |-> <<>>]
    ELSE [returncode |-> 0,
          stdout |-> [i \in 1..Cardinality(PsMatches(cs, name)) |-> "Up"]]

\* What the daemon may hold when the server starts: for each environment no
\* container, a running one or a stopped one, left by an earlier deployment.
InitialContainers ==
    LET old(name, tag, st) ==
            IF st = "absent" THEN {}
            ELSE {[name |-> name, image |-> ImageName(tag), state |-> st, by |-> 0]}
    IN  { old(DEV_CONTAINER_NAME, DEV_IMAGE_TAG, d)
            \cup old(PROD_CONTAINER_NAME, PROD_IMAGE_TAG, p) :
          d \in {"absent", "running", "exited"}, p \in {"absent", "running", "exited"} }

(***************************************************************************)
(* HTTP responses: the status code and the keys of the JSON body (a key    *)
(* the body does not have is <<>>; a value is the sequence of its parts).  *)
(***************************************************************************)
Response(code, status, message, error, tag, environment) ==
    [code |-> code, status |-> status, message |-> message, error |-> error,
     tag |-> tag, environment |-> environment]

NoResponse == Response(0, <<>>, <<>>, <<>>, <<>>, <<>>)

\* except Exception (lines 264-266)
InternalServerError ==
    Response(500, <<>>, <<>>, <<"Internal server error">>, <<>>, <<>>)

(***************************************************************************)
(* The frame of a deployment: which function runs, and its arguments.      *)
(***************************************************************************)
Frame(fn, branch, environment, container_name, image_name, host_port, container_port, node_env, tag) ==
    [fn |-> fn, branch |-> branch, environment |-> environment,
     container_name |-> container_name, image_name |-> image_name,
     host_port |-> host_port, container_port |-> container_port,
     node_env |-> node_env, tag |-> tag]

NoCall == Frame("", <<>>, "", "", <<>>, "", "", "", "")

\* Mutant of update_container: the two arms take each other's image tag.
update_container_tags_swapped(branch) ==
    IF branch = Develop
    THEN [deploys |-> TRUE,
          call |-> Frame("update_container", branch, "development",
                         DEV_CONTAINER_NAME, ImageName(PROD_IMAGE_TAG), DEV_HOST_PORT,
                         DEV_CONTAINER_PORT, NODE_ENV_DEV, PROD_IMAGE_TAG)]
    ELSE IF branch = Master
    THEN [deploys |-> TRUE,
          call |-> Frame("update_container", branch, "production",
                         PROD_CONTAINER_NAME, ImageName(DEV_IMAGE_TAG), PROD_HOST_PORT,
                         PROD_CONTAINER_PORT, NODE_ENV_PROD, DEV_IMAGE_TAG)]
    ELSE [deploys |-> FALSE,
          call |-> Frame("update_container", branch, "", "", <<>>, "", "", "", "")]

\* update_container (lines 76-142): the branch's target, up to its first
\* docker command; deploys is FALSE where the function returns False at once
update_container(branch) ==
    IF branch = Develop
    THEN [deploys |-> TRUE,
          call |-> Frame("update_container", branch, "development",
                         DEV_CONTAINER_NAME, ImageName(DEV_IMAGE_TAG), DEV_HOST_PORT,
                         DEV_CONTAINER_PORT, NODE_ENV_DEV, DEV_IMAGE_TAG)]
    ELSE IF branch = Master
    THEN [deploys |-> TRUE,
          call |-> Frame("update_container", branch, "production",
                         PROD_CONTAINER_NAME, ImageName(PROD_IMAGE_TAG), PROD_HOST_PORT,
                         PROD_CONTAINER_PORT, NODE_ENV_PROD, PROD_IMAGE_TAG)]
    ELSE [deploys |-> FALSE,
          call |-> Frame("update_container", branch, "", "", <<>>, "", "", "", "")]

\* handle_webhook after update_container returned `success` (lines 217-220)
update_container_response(branch, success) ==
    IF success
    THEN Response(200, <<>>, <<"Deployment triggered for ">> \o branch, <<>>, <<>>, <<>>)
    ELSE Response(500, <<>>, <<>>, <<"Deployment failed for ">> \o branch, <<>>, <<>>)

\* handle_webhook after deploy_container returned (lines 252-259): the
\* function's result is not looked at
deploy_container_response(environment, tag, success) ==
    Response(200, <<"success">>, <<"Deployment completed for ", environment>>, <<>>,
             <<tag>>, <<environment>>)

\* The Docker Hub arm of handle_webhook (lines 223-262), up to deploy_container
docker_hub_webhook(payload) ==
    IF payload.isNone
    THEN [deploys |-> FALSE, call |-> NoCall, response |-> InternalServerError]  \* TypeError
    ELSE IF "push_data" \in DOMAIN payload.obj /\ "repository" \in DOMAIN payload.obj
    THEN IF "repo_name" \notin DOMAIN payload.obj.repository
            \/ "tag" \notin DOMAIN payload.obj.push_data
         THEN [deploys |-> FALSE, call |-> NoCall, response |-> InternalServerError]  \* KeyError
         ELSE LET tag == payload.obj.push_data.tag IN
              IF tag = "latest-dev"
              THEN [deploys |-> TRUE, response |-> NoResponse,
                    call |-> Frame("deploy_container", <<>>, "development",
                                   DEV_CONTAINER_NAME, ImageName(tag), DEV_HOST_PORT,
                                   DEV_CONTAINER_PORT, NODE_ENV_DEV, tag)]
              ELSE IF tag = "latest"
              THEN [deploys |-> TRUE, response |-> NoResponse,
                    call |-> Frame("deploy_container", <<>>, "production",
                                   PROD_CONTAINER_NAME, ImageName(tag), PROD_HOST_PORT,
                                   PROD_CONTAINER_PORT, NODE_ENV_PROD, tag)]
              ELSE [deploys |-> FALSE, call |-> NoCall,
                    response |-> Response(200, <<"ignored">>,
                                          <<"Tag ", tag, " not configured">>,
                                          <<>>, <<>>, <<>>)]
    ELSE [deploys |-> FALSE, call |-> NoCall,
          response |-> Response(400, <<>>, <<>>, <<"Unknown webhook format">>, <<>>, <<>>)]

\* The GitHub arm of handle_webhook (lines 202-220), up to update_container's
\* first docker command
github_webhook(github_event, payload) ==
    IF github_event # "push"
    THEN [deploys |-> FALSE, call |-> NoCall,
          response |-> Response(200, <<"ignored">>,
                                <<"Event ", github_event, " not supported">>,
                                <<>>, <<>>, <<>>)]
    ELSE IF payload.isNone
    THEN [deploys |-> FALSE, call |-> NoCall, response |-> InternalServerError]  \* AttributeError
    ELSE LET ref == IF "ref" \in DOMAIN payload.obj THEN payload.obj.ref ELSE <<>>
             branch == Replace(ref, RefsHeads, <<>>)
             u == update_container(branch)
         IN  IF u.deploys
             THEN [deploys |-> TRUE, call |-> u.call, response |-> NoResponse]
             ELSE [deploys |-> FALSE, call |-> u.call,
                   response |-> update_container_response(branch, FALSE)]

\* handle_webhook (lines 192-266), up to the first docker command or to the
\* response.  The X-Hub-Signature-256 header is not read.
route(github_event, body) ==
    LET payload == get_json(body) IN
    IF payload.raised
    THEN [deploys |-> FALSE, call |-> NoCall, response |-> InternalServerError]
    ELSE IF github_event # None /\ github_event # ""     \* if github_event:
    THEN github_webhook(github_event, payload)
    ELSE docker_hub_webhook(payload)

\* What handle_webhook answers once the deployment function has returned.
returned(frame, success) ==
    IF frame.fn = "update_container"
    THEN update_container_response(frame.branch, success)
    ELSE deploy_container_response(frame.environment, frame.tag, success)

(***************************************************************************)
(* The docker command lines.                                               *)
(***************************************************************************)
pull_argv(frame) == <<A("docker"), A("pull"), frame.image_name>>

\* Mutant of stop_argv: the stop always names the production container.
stop_argv_production(frame) == <<A("docker"), A("stop"), A(PROD_CONTAINER_NAME)>>

stop_argv(frame) == <<A("docker"), A("stop"), A(frame.container_name)>>

rm_argv(frame) == <<A("docker"), A("rm"), A(frame.container_name)>>

\* lines 93-101 and 120-128 (update_container), 168-174 (deploy_container)
\* Mutant of run_argv: the new container is named after the environment, not
\* with the container name that stop and rm were given.
run_argv_environment_name(frame) ==
    <<A("docker"), A("run"), A("-d"),
      A("--name"), A(frame.environment),
      A("-p"), <<frame.host_port, ":", frame.container_port>>,
      A("-e"), <<"NODE_ENV=", frame.node_env>>,
      frame.image_name>>

run_argv(frame) ==
    IF frame.fn = "update_container"
    THEN <<A("docker"), A("run"), A("-d"),
           A("--name"), A(frame.container_name),
           A("-p"), <<frame.host_port, ":", frame.container_port>>,
           A("-e"), <<"NODE_ENV=", frame.node_env>>,
           A("-e"), <<"PORT=", frame.container_port>>,
           A("--restart"), A("unless-stopped"),
           frame.image_name>>
    ELSE <<A("docker"), A("run"), A("-d"),
           A("--name"), A(frame.container_name),
           A("-p"), <<frame.host_port, ":", frame.container_port>>,
           A("-e"), <<"NODE_ENV=", frame.node_env>>,
           frame.image_name>>

\* Mutant of pull_raises: the pull is run with check=False.
pull_unchecked(returncode) == FALSE

\* subprocess.run(..., check=True) raises CalledProcessError on a non-zero
\* return code; both deployment functions catch it and return False
pull_raises(returncode) == returncode # 0

run_raises(returncode) == returncode # 0

Issued(r, argv, returncode) ==
    [cmds EXCEPT ![r] = Append(@, [argv |-> argv, returncode |-> returncode])]

(***************************************************************************)
(* Actions.                                                                *)
(***************************************************************************)
NotVerified == [payload_body |-> 0, signature_header |-> NoneSeq, result |-> "unset"]

\* No GET request has been answered.
NoGet == [endpoint |-> "", code |-> 0, body |-> <<>>, cmds |-> <<>>, seen |-> <<>>]

\* What a GET handler finds: the containers and where each webhook request is.
Seen == [containers |-> containers, pc |-> pc]

Init ==
    /\ environ \in Environs
    /\ containers \in InitialContainers
    /\ before = containers
    /\ pc = [r \in Reqs |-> "idle"]
    /\ request = [r \in Reqs |-> [event |-> None, signature |-> NoneSeq, body |-> 0]]
    /\ call = [r \in Reqs |-> NoCall]
    /\ cmds = [r \in Reqs |-> <<>>]
    /\ response = [r \in Reqs |-> NoResponse]
    /\ verified = NotVerified
    /\ result = [r \in Reqs |-> "none"]
    /\ get = NoGet

\* POST /webhook arrives and is handled up to its first docker command
handle_webhook(r, github_event, signature, body) ==
    /\ pc[r] = "idle"
    /\ request' = [request EXCEPT ![r] =
                      [event |-> github_event, signature |-> signature, body |-> body]]
    /\ LET o == route(github_event, body) IN
       /\ call' = [call EXCEPT ![r] = o.call]
       /\ response' = [response EXCEPT ![r] = o.response]
       /\ pc' = [pc EXCEPT ![r] = IF o.deploys THEN "pull" ELSE "done"]
       /\ result' = [result EXCEPT ![r] =
                        IF ~o.deploys /\ o.call.fn = "update_container"
                        THEN "False" ELSE "none"]
    /\ UNCHANGED <<environ, containers, before, cmds, verified, get>>

\* Mutant of Pull: a failed pull is tried once more.
PullRetried(r, fault) ==
    /\ pc[r] = "pull"
    /\ LET argv == pull_argv(call[r])
           res == DockerPull(containers, argv, fault)
           retry == pull_raises(res.returncode) /\ cmds[r] = <<>>
       IN  /\ cmds' = Issued(r, argv, res.returncode)
           /\ containers' = res.containers
           /\ IF retry
              THEN UNCHANGED <<pc, response, result>>
              ELSE IF pull_raises(res.returncode)
              THEN /\ pc' = [pc EXCEPT ![r] = "done"]
                   /\ response' = [response EXCEPT ![r] = returned(call[r], FALSE)]
                   /\ result' = [result EXCEPT ![r] = "False"]
              ELSE /\ pc' = [pc EXCEPT ![r] = "stop"]
                   /\ UNCHANGED <<response, result>>
    /\ UNCHANGED <<environ, before, request, call, verified, get>>

\* subprocess.run(["docker", "pull", image_name], check=True)
Pull(r, fault) ==
    /\ pc[r] = "pull"
    /\ LET argv == pull_argv(call[r])
           res == DockerPull(containers, argv, fault)
       IN  /\ cmds' = Issued(r, argv, res.returncode)
           /\ containers' = res.containers
           /\ IF pull_raises(res.returncode)
              THEN /\ pc' = [pc EXCEPT ![r] = "done"]
                   /\ response' = [response EXCEPT ![r] = returned(call[r], FALSE)]
                   /\ result' = [result EXCEPT ![r] = "False"]
              ELSE /\ pc' = [pc EXCEPT ![r] = "stop"]
                   /\ UNCHANGED <<response, result>>
    /\ UNCHANGED <<environ, before, request, call, verified, get>>

\* subprocess.run(["docker", "stop", name], check=False)
Stop(r, fault) ==
    /\ pc[r] = "stop"
    /\ LET argv == stop_argv(call[r])
           res == DockerStop(containers, argv, fault)
       IN  /\ cmds' = Issued(r, argv, res.returncode)
           /\ containers' = res.containers
    /\ pc' = [pc EXCEPT ![r] = "rm"]
    /\ UNCHANGED <<environ, before, request, call, response, verified, result, get>>

\* subprocess.run(["docker", "rm", name], check=False)
Rm(r, fault) ==
    /\ pc[r] = "rm"
    /\ LET argv == rm_argv(call[r])
           res == DockerRm(containers, argv, fault)
       IN  /\ cmds' = Issued(r, argv, res.returncode)
           /\ containers' = res.containers
    /\ pc' = [pc EXCEPT ![r] = "run"]
    /\ UNCHANGED <<environ, before, request, call, response, verified, result, get>>

\* Mutant of Run: the deployment succeeds only if stop and rm succeeded too.
RunAfterCheckedRemoval(r, fault) ==
    /\ pc[r] = "run"
    /\ LET argv == run_argv(call[r])
           res == DockerRun(containers, argv, fault, r)
           success == /\ ~run_raises(res.returncode)
                      /\ \A i \in 1..Len(cmds[r]) : cmds[r][i].returncode = 0
       IN  /\ cmds' = Issued(r, argv, res.returncode)
           /\ containers' = res.containers
           /\ response' = [response EXCEPT ![r] = returned(call[r], success)]
           /\ result' = [result EXCEPT ![r] = IF success THEN "True" ELSE "False"]
    /\ pc' = [pc EXCEPT ![r] = "done"]
    /\ UNCHANGED <<environ, before, request, call, verified, get>>

\* subprocess.run(["docker", "run", ...], check=True), the function's return
\* and handle_webhook's response
Run(r, fault) ==
    /\ pc[r] = "run"
    /\ LET argv == run_argv(call[r])
           res == DockerRun(containers, argv, fault, r)
       IN  /\ cmds' = Issued(r, argv, res.returncode)
           /\ containers' = res.containers
           /\ response' = [response EXCEPT ![r] =
                              returned(call[r], ~run_raises(res.returncode))]
           /\ result' = [result EXCEPT ![r] =
                            IF run_raises(res.returncode) THEN "False" ELSE "True"]
    /\ pc' = [pc EXCEPT ![r] = "done"]
    /\ UNCHANGED <<environ, before, request, call, verified, get>>

\* A call of verify_signature (no handler calls it)
VerifySignature(payload_body, signature_header) ==
    /\ verified' = [payload_body |-> payload_body, signature_header |-> signature_header,
                    result |-> verify_signature(payload_body, signature_header)]
    /\ UNCHANGED <<environ, containers, before, pc, request, call, cmds, response,
                   result, get>>

\* ["docker", "ps", "--filter", f"name={name}", "--format", "{{.Status}}"]
ps_argv(name) ==
    <<A("docker"), A("ps"), A("--filter"), <<"name=", name>>, A("--format"),
      A("{{.Status}}")>>

\* The status text "Not running", as the lines of a status
NotRunning == <<"Not running">>

\* stdout.strip() or "Not running"
status_or_not_running(stdout) == IF stdout = <<>> THEN NotRunning ELSE stdout

\* One entry of the body of GET /status
status_entry(container, status, port) ==
    [container |-> container, status |-> status, port |-> port]

\* A GET /status that has issued its first docker ps and not yet answered.
StatusPending == get.endpoint = "/status" /\ get.code = 0

\* GET /status up to its first docker ps; a command that cannot be started
\* raises, and the handler answers 500 with the text of the exception
deployment_status(fault) ==
    /\ ~StatusPending
    /\ IF fault = "oserror"
       THEN get' = [endpoint |-> "/status", code |-> 500,
                    body |-> [error |-> "FileNotFoundError"], cmds |-> <<>>,
                    seen |-> <<>>]
       ELSE LET argv == ps_argv(DEV_CONTAINER_NAME)
                res == DockerPs(containers, argv, fault)
            IN  get' = [endpoint |-> "/status", code |-> 0,
                        body |-> [dev_status |-> res],
                        cmds |-> <<[argv |-> argv, returncode |-> res.returncode]>>,
                        seen |-> <<Seen>>]
    /\ UNCHANGED <<environ, containers, before, pc, request, call, cmds, response,
                   verified, result>>

\* GET /status from its second docker ps to its answer
deployment_status_prod(fault) ==
    /\ StatusPending
    /\ IF fault = "oserror"
       THEN get' = [get EXCEPT !.code = 500, !.body = [error |-> "FileNotFoundError"]]
       ELSE LET argv == ps_argv(PROD_CONTAINER_NAME)
                res == DockerPs(containers, argv, fault)
                dev_status == get.body.dev_status
            IN  get' = [endpoint |-> "/status", code |-> 200,
                        body |-> [development |->
                                     status_entry(DEV_CONTAINER_NAME,
                                         status_or_not_running(dev_status.stdout),
                                         DEV_HOST_PORT),
                                  production |->
                                     status_entry(PROD_CONTAINER_NAME,
                                         status_or_not_running(res.stdout),
                                         PROD_HOST_PORT)],
                        cmds |-> Append(get.cmds,
                                    [argv |-> argv, returncode |-> res.returncode]),
                        seen |-> Append(get.seen, Seen)]
    /\ UNCHANGED <<environ, containers, before, pc, request, call, cmds, response,
                   verified, result>>

\* Mutant of health_check: answers 503 while a deployment is in progress.
health_check_busy ==
    /\ ~StatusPending
    /\ get' = [endpoint |-> "/health",
               code |-> IF \E r \in Reqs : pc[r] \notin {"idle", "done"}
                        THEN 503 ELSE 200,
               body |-> [status |-> "healthy", timestamp |-> "now"],
               cmds |-> <<>>, seen |-> <<Seen>>]
    /\ UNCHANGED <<environ, containers, before, pc, request, call, cmds, response,
                   verified, result>>

\* GET /health
health_check ==
    /\ ~StatusPending
    /\ get' = [endpoint |-> "/health", code |-> 200,
               body |-> [status |-> "healthy", timestamp |-> "now"],
               cmds |-> <<>>, seen |-> <<Seen>>]
    /\ UNCHANGED <<environ, containers, before, pc, request, call, cmds, response,
                   verified, result>>

\* GET /
index ==
    /\ ~StatusPending
    /\ get' = [endpoint |-> "/", code |-> 200,
               body |-> [service |-> "Docker Webhook Server", status |-> "running",
                         timestamp |-> "now"],
               cmds |-> <<>>, seen |-> <<Seen>>]
    /\ UNCHANGED <<environ, containers, before, pc, request, call, cmds, response,
                   verified, result>>

Faults == {"none", "error"}

PsFaults == {"none", "error", "oserror"}

RunFaults == {"none", "error", "created"}

\* One webhook request, any headers and body.
Next ==
    \/ \E e \in Events, b \in Bodies : \E s \in SignatureHeaders(b) :
          handle_webhook(1, e, s, b)
    \/ \E f \in Faults : Pull(1, f)
    \/ \E f \in Faults : Stop(1, f)
    \/ \E f \in Faults : Rm(1, f)
    \/ \E f \in RunFaults : Run(1, f)

Spec == Init /\ [][Next]_vars

\* The webhooks that start a deployment when no variable is set: a GitHub
\* push for develop or master, a Docker Hub push of latest-dev or latest.
DeployRequests ==
    {eb \in {None, "push"} \X DeployBodies :
        eb[1] = "push" <=> "ref" \in DOMAIN Payloads[eb[2]].obj}

\* Concurrent webhook requests that deploy, with no variable set.  The faults
\* are those of pull and run; stop and rm fail as the containers make them.
InitConcurrent == Init /\ environ = {}

NextConcurrent ==
    \/ \E r \in Reqs, eb \in DeployRequests : handle_webhook(r, eb[1], NoneSeq, eb[2])
    \/ \E r \in Reqs, f \in Faults : Pull(r, f)
    \/ \E r \in Reqs : Stop(r, "none")
    \/ \E r \in Reqs : Rm(r, "none")
    \/ \E r \in Reqs, f \in RunFaults : Run(r, f)

SpecConcurrent == InitConcurrent /\ [][NextConcurrent]_vars

\* Concurrent deploying requests when docker itself never fails: every pull
\* succeeds, and stop, rm and run fail only as the containers make them.
NextNoFaults ==
    \/ \E r \in Reqs, eb \in DeployRequests : handle_webhook(r, eb[1], NoneSeq, eb[2])
    \/ \E r \in Reqs : Pull(r, "none")
    \/ \E r \in Reqs : Stop(r, "none")
    \/ \E r \in Reqs : Rm(r, "none")
    \/ \E r \in Reqs : Run(r, "none")

SpecNoFaults == InitConcurrent /\ [][NextNoFaults]_vars

\* verify_signature on any body and header.
NextVerify ==
    \E b \in Bodies : \E s \in SignatureHeaders(b) : VerifySignature(b, s)

SpecVerify == Init /\ [][NextVerify]_vars

\* One deploying webhook request and the GET endpoints, in any order.
NextEndpoints ==
    \/ \E eb \in DeployRequests : handle_webhook(1, eb[1], NoneSeq, eb[2])
    \/ \E f \in Faults : Pull(1, f)
    \/ Stop(1, "none")
    \/ Rm(1, "none")
    \/ \E f \in RunFaults : Run(1, f)
    \/ \E f \in PsFaults : deployment_status(f)
    \/ \E f \in PsFaults : deployment_status_prod(f)
    \/ health_check
    \/ index

SpecEndpoints == Init /\ [][NextEndpoints]_vars

(***************************************************************************)
(* Vocabulary of the properties.                                           *)
(***************************************************************************)
Done(r) == pc[r] = "done"

Arrived(r) == pc[r] # "idle"

Payload(r) == Payloads[request[r].body]

\* The docker subcommand of an issued command: pull, stop, rm or run.
Op(c) == c.argv[2][1]

Last(s) == s[Len(s)]

\* The deployment ran to its end and docker run reported no error.
Succeeded(r) == Done(r) /\ cmds[r] # <<>> /\ Op(Last(cmds[r])) = "run"
                /\ Last(cmds[r]).returncode = 0

\* The deployment was started and pull or run reported an error.
Failed(r) == /\ Done(r) /\ cmds[r] # <<>>
             /\ \/ Op(Last(cmds[r])) = "pull" /\ Last(cmds[r]).returncode # 0
                \/ Op(Last(cmds[r])) = "run" /\ Last(cmds[r]).returncode # 0

\* A push event of GitHub for refs/heads/<branch>.
GithubPush(r, branch) ==
    /\ Arrived(r)
    /\ request[r].event = "push"
    /\ Payload(r).kind = "object"
    /\ "ref" \in DOMAIN Payload(r).obj
    /\ Payload(r).obj.ref = RefsHeads \o branch

\* A Docker Hub push (no X-GitHub-Event header) of the given tag.
RegistryPush(r, tag) ==
    /\ Arrived(r)
    /\ request[r].event = None
    /\ Payload(r).kind = "object"
    /\ "push_data" \in DOMAIN Payload(r).obj
    /\ "repository" \in DOMAIN Payload(r).obj
    /\ "tag" \in DOMAIN Payload(r).obj.push_data
    /\ "repo_name" \in DOMAIN Payload(r).obj.repository
    /\ Payload(r).obj.push_data.tag = tag

\* Every command of request r is for the container `name` and the image
\* registry/name:tag, the first one is the pull, and once r is done it has
\* issued at least one; a successful run leaves that container running.
DeploysTarget(r, name, tag) ==
    LET image == <<DOCKER_REGISTRY, "/", DOCKER_IMAGE_NAME, ":", tag>> IN
    /\ Done(r) => cmds[r] # <<>>
    /\ cmds[r] # <<>> => Op(cmds[r][1]) = "pull"
    /\ \A i \in 1..Len(cmds[r]) :
          LET c == cmds[r][i] IN
          /\ Op(c) = "pull" => c.argv[3] = image
          /\ Op(c) \in {"stop", "rm"} => c.argv[3] = <<name>>
          /\ Op(c) = "run" => c.argv[5] = <<name>> /\ Last(c.argv) = image
    /\ Succeeded(r) =>
          \E c \in containers :
              c.name = name /\ c.image = image /\ c.state = "running" /\ c.by = r

Ignored(r) == Done(r) /\ cmds[r] = <<>> /\ response[r].code = 200

(***************************************************************************)
(* C1 (as claimed; refuted by the code).  A POST /webhook whose            *)
(* X-Hub-Signature-256 header is present and does not verify is answered   *)
(* 401 {"error": "Invalid signature"} and issues no docker command.        *)
(***************************************************************************)
InvalidSignature(r) ==
    /\ Arrived(r)
    /\ request[r].signature # NoneSeq
    /\ verify_signature(request[r].body, request[r].signature) # "True"

C1_InvalidSignatureRejected ==
    \A r \in Reqs :
        InvalidSignature(r) =>
            /\ cmds[r] = <<>>
            /\ Done(r) => /\ response[r].code = 401
                          /\ response[r].error = <<"Invalid signature">>

\* a push to master signed with a digest that is not the body's was deployed
C1_Witness ==
    \E r \in Reqs :
        /\ GithubPush(r, Master)
        /\ request[r].signature
             = Sha256 \o <<"=">> \o OtherDigest(HmacHexdigest(WEBHOOK_SECRET, request[r].body))
        /\ Succeeded(r)
        /\ response[r].code = 200

(***************************************************************************)
(* C2.  In update_container and in deploy_container alike, a failed pull   *)
(* ends the deployment: no stop, rm or run is issued, and the daemon's     *)
(* containers are those from before the deployment; stop, rm and run       *)
(* are issued only after a pull that succeeded.                            *)
(***************************************************************************)
C2_PullFailureLeavesContainer ==
    \A r \in Reqs :
        /\ (cmds[r] # <<>> /\ cmds[r][1].returncode # 0) =>
              /\ Len(cmds[r]) = 1
              /\ Done(r)
              /\ containers = before
        /\ \A i \in 1..Len(cmds[r]) :
              Op(cmds[r][i]) \in {"stop", "rm", "run"} =>
                  /\ i > 1
                  /\ Op(cmds[r][1]) = "pull"
                  /\ cmds[r][1].returncode = 0

\* deploy_container's pull failed while the environment's container was running
C2_Witness ==
    \E r \in Reqs :
        /\ Done(r)
        /\ call[r].fn = "deploy_container"
        /\ Len(cmds[r]) = 1 /\ Op(cmds[r][1]) = "pull" /\ cmds[r][1].returncode # 0
        /\ \E c \in containers : c.name = call[r].container_name /\ c.state = "running"

(***************************************************************************)
(* C3 (as claimed; refuted by the code).  Deployments of one container     *)
(* name are serial: no request is between its stop and its run (stop       *)
(* issued, run not yet issued) while another request for the same          *)
(* container name is.                                                      *)
(***************************************************************************)
InStopToRun(r) == pc[r] \in {"rm", "run"}

C3_DeploymentsSerial ==
    \A r1, r2 \in Reqs :
        (r1 # r2 /\ InStopToRun(r1) /\ InStopToRun(r2)) =>
            call[r1].container_name # call[r2].container_name

\* two deployments of one name have both removed and are both about to run
C3_Witness ==
    \E r1, r2 \in Reqs :
        /\ r1 # r2
        /\ call[r1].container_name = call[r2].container_name
        /\ pc[r1] = "run" /\ pc[r2] = "run"

(***************************************************************************)
(* C4.  A GitHub push for refs/heads/develop deploys the development       *)
(* target (DEV_CONTAINER_NAME, registry/name:DEV_IMAGE_TAG), one for       *)
(* refs/heads/master the production target; when the deployment succeeds   *)
(* the answer is 200 {"message": "Deployment triggered for <branch>"}.     *)
(***************************************************************************)
C4_GithubPushDeploysTarget ==
    \A r \in Reqs :
        /\ GithubPush(r, Develop) =>
              /\ DeploysTarget(r, DEV_CONTAINER_NAME, DEV_IMAGE_TAG)
              /\ Succeeded(r) =>
                    response[r] = Response(200, <<>>,
                        <<"Deployment triggered for ", "d", "e", "v", "e", "l", "o", "p">>,
                        <<>>, <<>>, <<>>)
        /\ GithubPush(r, Master) =>
              /\ DeploysTarget(r, PROD_CONTAINER_NAME, PROD_IMAGE_TAG)
              /\ Succeeded(r) =>
                    response[r] = Response(200, <<>>,
                        <<"Deployment triggered for ", "m", "a", "s", "t", "e", "r">>,
                        <<>>, <<>>, <<>>)

\* a push to master was deployed with a production tag that is not the default
C4_Witness ==
    \E r \in Reqs :
        /\ GithubPush(r, Master) /\ Succeeded(r)
        /\ PROD_IMAGE_TAG # "latest"
        /\ response[r].code = 200

(***************************************************************************)
(* C5 (as claimed; refuted by the code).  A GitHub push for a branch other *)
(* than develop and master is ignored: no docker command, answer 200.      *)
(***************************************************************************)
\* the branch of a ref: what follows the leading refs/heads/
BranchOf(ref) == IF StartsWith(ref, RefsHeads) THEN Drop(ref, Len(RefsHeads)) ELSE ref

OtherBranchPush(r) ==
    /\ Arrived(r)
    /\ request[r].event = "push"
    /\ Payload(r).kind = "object"
    /\ "ref" \in DOMAIN Payload(r).obj
    /\ BranchOf(Payload(r).obj.ref) \notin {Develop, Master}

C5_OtherBranchIgnored ==
    \A r \in Reqs :
        OtherBranchPush(r) =>
            /\ cmds[r] = <<>>
            /\ Done(r) => response[r].code = 200

\* a push to MASTER was answered 500 "Deployment failed for MASTER"
C5_Witness ==
    \E r \in Reqs :
        /\ GithubPush(r, <<"M", "A", "S", "T", "E", "R">>)
        /\ Done(r) /\ cmds[r] = <<>>
        /\ response[r].code = 500
        /\ response[r].error = <<"Deployment failed for ", "M", "A", "S", "T", "E", "R">>

(***************************************************************************)
(* C6 (as claimed; refuted by the code).  Whatever DEV_IMAGE_TAG and       *)
(* PROD_IMAGE_TAG are set to, a Docker Hub push of the development tag     *)
(* deploys the development target with that tag, a push of the production  *)
(* tag the production target, and a push of any other tag is ignored.      *)
(***************************************************************************)
C6_RegistryPushFollowsConfiguredTags ==
    \A r \in Reqs : \A b \in Bodies :
        LET p == Payloads[b] IN
        (p.kind = "object" /\ "push_data" \in DOMAIN p.obj
           /\ "tag" \in DOMAIN p.obj.push_data /\ RegistryPush(r, p.obj.push_data.tag)
           /\ request[r].body = b) =>
            LET tag == p.obj.push_data.tag IN
            IF tag = DEV_IMAGE_TAG THEN DeploysTarget(r, DEV_CONTAINER_NAME, tag)
            ELSE IF tag = PROD_IMAGE_TAG THEN DeploysTarget(r, PROD_CONTAINER_NAME, tag)
            ELSE cmds[r] = <<>> /\ (Done(r) => response[r].code = 200)

\* with DEV_IMAGE_TAG=staging a push of staging was answered "not configured"
C6_Witness ==
    \E r \in Reqs :
        /\ DEV_IMAGE_TAG = "staging"
        /\ RegistryPush(r, "staging")
        /\ Ignored(r)
        /\ response[r].message = <<"Tag ", "staging", " not configured">>

(***************************************************************************)
(* C7 (as claimed; refuted by the code).  POST /webhook answers 200 only   *)
(* when the deployment succeeded or the event was ignored, and 500 with an *)
(* error body when the deployment failed (pull or run failed).             *)
(***************************************************************************)
C7_StatusReflectsDeployment ==
    \A r \in Reqs :
        /\ (Done(r) /\ response[r].code = 200) => (Succeeded(r) \/ cmds[r] = <<>>)
        /\ Failed(r) => (response[r].code = 500 /\ response[r].error # <<>>)

\* a Docker Hub push whose deployment failed was answered 200 "success"
C7_Witness ==
    \E r \in Reqs :
        /\ RegistryPush(r, "latest-dev")
        /\ Failed(r)
        /\ response[r].code = 200
        /\ response[r].status = <<"success">>

NoParsedBody(r) == Arrived(r) /\ Payload(r).kind \in {"malformed", "null"}

C9_BadBodyIsNotServerError ==
    \A r \in Reqs :
        NoParsedBody(r) =>
            /\ cmds[r] = <<>>
            /\ Done(r) => response[r].code # 500

\* a push event with a malformed body was answered 500
C9_Witness ==
    \E r \in Reqs :
        /\ Arrived(r) /\ Payload(r).kind = "malformed"
        /\ request[r].event = "push"
        /\ Done(r)
        /\ response[r] = InternalServerError

(***************************************************************************)
(* C10 (as claimed; refuted by the code).  verify_signature never raises,  *)
(* and returns True exactly for a header sha256=<hex> whose <hex> is the   *)
(* HMAC digest of the body, compared without regard to the case of the     *)
(* hexadecimal digits.                                                     *)
(***************************************************************************)
MatchesDigest(payload_body, signature_header) ==
    /\ signature_header # NoneSeq
    /\ StartsWith(signature_header, Sha256 \o <<"=">>)
    /\ Upper(Drop(signature_header, Len(Sha256) + 1))
         = Upper(HmacHexdigest(WEBHOOK_SECRET, payload_body))

C10_VerifySignatureContract ==
    verified.result # "unset" =>
        /\ verified.result \in {"True", "False"}
        /\ verified.result = "True"
             <=> MatchesDigest(verified.payload_body, verified.signature_header)

\* the digest of the body in upper case was rejected
C10_Witness ==
    /\ verified.result = "False"
    /\ MatchesDigest(verified.payload_body, verified.signature_header)


(***************************************************************************)
(* C11: GET /status answers 200 and reports "Not running" for each         *)
(* environment whose container does not exist or is not running, whatever  *)
(* the state of the other environment's container.  The case is a GET      *)
(* /status whose two docker ps commands were both issued.                  *)
(***************************************************************************)
StatusAnswered == get.endpoint = "/status" /\ Len(get.cmds) = 2

NotRunningIn(cs, name) == \A c \in Named(cs, name) : c.state # "running"

C11_StatusReportsNotRunning ==
    StatusAnswered =>
        /\ get.code = 200
        /\ NotRunningIn(get.seen[1].containers, DEV_CONTAINER_NAME) =>
               get.body.development.status = NotRunning
        /\ NotRunningIn(get.seen[2].containers, PROD_CONTAINER_NAME) =>
               get.body.production.status = NotRunning

\* No development container exists, the production container runs, and GET
\* /status reports a status other than "Not running" for development.
C11_Witness ==
    /\ StatusAnswered
    /\ get.code = 200
    /\ Named(get.seen[1].containers, DEV_CONTAINER_NAME) = {}
    /\ \E c \in Named(get.seen[1].containers, PROD_CONTAINER_NAME) : c.state = "running"
    /\ get.body.development.status # NotRunning
    /\ get.body.production.status # NotRunning

(***************************************************************************)
(* C12: GET /health answers 200 with status "healthy" in every reachable   *)
(* state, also while docker cannot be reached or a deployment is in        *)
(* progress, and issues no docker command.                                 *)
(***************************************************************************)
C12_HealthAlwaysHealthy ==
    get.endpoint = "/health" =>
        /\ get.code = 200
        /\ get.body.status = "healthy"
        /\ get.cmds = <<>>

\* /health was answered while a deployment whose pull had succeeded was
\* between its stop and its run.
C12_Witness ==
    /\ get.endpoint = "/health"
    /\ get.code = 200
    /\ get.seen[1].pc[1] \in {"stop", "rm", "run"}

(***************************************************************************)
(* C13: within one deployment the docker commands are issued in the order  *)
(* pull, stop, rm, run, each at most once and none repeated after a        *)
(* failure; a failed pull or a failed run is the last command of the       *)
(* deployment.                                                             *)
(***************************************************************************)
DeploymentOrder == <<"pull", "stop", "rm", "run">>

C13_CommandsInOrderOnce ==
    \A r \in Reqs :
        /\ Len(cmds[r]) <= Len(DeploymentOrder)
        /\ \A i \in 1..Len(cmds[r]) :
              /\ Op(cmds[r][i]) = DeploymentOrder[i]
              /\ Op(cmds[r][i]) \in {"pull", "run"} /\ cmds[r][i].returncode # 0 =>
                    i = Len(cmds[r]) /\ Done(r)

\* A deployment whose stop and rm failed went on to its run, the run failed
\* and the deployment ended there.
C13_Witness ==
    \E r \in Reqs :
        /\ Done(r)
        /\ Len(cmds[r]) = 4
        /\ cmds[r][2].returncode # 0
        /\ cmds[r][3].returncode # 0
        /\ cmds[r][4].returncode # 0

(***************************************************************************)
(* C14: the result of a deployment is success exactly when its pull        *)
(* succeeded and its run succeeded, whatever stop and rm returned.         *)
(***************************************************************************)
PullSucceeded(r) == cmds[r] # <<>> /\ Op(cmds[r][1]) = "pull" /\ cmds[r][1].returncode = 0

RunSucceeded(r) ==
    \E i \in 1..Len(cmds[r]) : Op(cmds[r][i]) = "run" /\ cmds[r][i].returncode = 0

C14_SuccessIffPullAndRun ==
    \A r \in Reqs :
        /\ Done(r) /\ cmds[r] # <<>> => result[r] \in {"True", "False"}
        /\ Done(r) /\ PullSucceeded(r) => Op(Last(cmds[r])) = "run"
        /\ Done(r) /\ result[r] # "none" =>
              (result[r] = "True" <=> PullSucceeded(r) /\ RunSucceeded(r))

\* A deployment whose stop and rm both failed returned True.
C14_Witness ==
    \E r \in Reqs :
        /\ Done(r)
        /\ result[r] = "True"
        /\ \E i, j \in 1..Len(cmds[r]) :
              /\ Op(cmds[r][i]) = "stop" /\ cmds[r][i].returncode # 0
              /\ Op(cmds[r][j]) = "rm" /\ cmds[r][j].returncode # 0

(***************************************************************************)
(* C15: when pull succeeds, stop and rm remove the old container and run   *)
(* then fails, the deployment returns failure, no container bears the      *)
(* environment's name (the old one is not restored) and the webhook is     *)
(* answered 500.                                                           *)
(***************************************************************************)
RunFailedAfterRemoval(r) ==
    /\ Done(r)
    /\ Len(cmds[r]) = 4
    /\ Named(before, call[r].container_name) # {}
    /\ cmds[r][1].returncode = 0
    /\ cmds[r][3].returncode = 0
    /\ cmds[r][4].returncode # 0

C15_StartFailureLeavesNothing ==
    \A r \in Reqs :
        RunFailedAfterRemoval(r) =>
            /\ result[r] = "False"
            /\ Named(containers, call[r].container_name) = {}
            /\ response[r].code = 500

\* A Docker Hub push whose run failed after the old container was removed:
\* deploy_container returned False, no container bears the name, and the
\* webhook was answered 200.
C15_Witness ==
    \E r \in Reqs :
        /\ RunFailedAfterRemoval(r)
        /\ call[r].fn = "deploy_container"
        /\ result[r] = "False"
        /\ Named(containers, call[r].container_name) = {}
        /\ response[r].code = 200

(***************************************************************************)
(* C16: every docker run issued for an environment, on the GitHub path and *)
(* on the Docker Hub path alike, carries the same options: -d, --name with *)
(* the environment's container name, -p host port:container port, -e       *)
(* NODE_ENV, -e PORT and --restart unless-stopped.                         *)
(***************************************************************************)
RunOptions(name, host_port, container_port, node_env) ==
    <<A("docker"), A("run"), A("-d"),
      A("--name"), A(name),
      A("-p"), <<host_port, ":", container_port>>,
      A("-e"), <<"NODE_ENV=", node_env>>,
      A("-e"), <<"PORT=", container_port>>,
      A("--restart"), A("unless-stopped")>>

\* The options of the environment that owns the container name.
EnvironmentRunOptions(name) ==
    IF name = DEV_CONTAINER_NAME
    THEN RunOptions(DEV_CONTAINER_NAME, DEV_HOST_PORT, DEV_CONTAINER_PORT, NODE_ENV_DEV)
    ELSE RunOptions(PROD_CONTAINER_NAME, PROD_HOST_PORT, PROD_CONTAINER_PORT,
                    NODE_ENV_PROD)

\* The arguments of a command before its last one, the image.
OptionsOf(argv) == SubSeq(argv, 1, Len(argv) - 1)

C16_RunOptionsSameOnBothPaths ==
    \A r \in Reqs : \A i \in 1..Len(cmds[r]) :
        Op(cmds[r][i]) = "run" =>
            OptionsOf(cmds[r][i].argv) = EnvironmentRunOptions(call[r].container_name)

\* A Docker Hub push issued a docker run without -e PORT and without
\* --restart unless-stopped.
C16_Witness ==
    \E r \in Reqs :
        /\ RegistryPush(r, "latest")
        /\ Done(r)
        /\ Op(Last(cmds[r])) = "run"
        /\ \A j \in 1..Len(Last(cmds[r]).argv) :
              /\ Last(cmds[r]).argv[j] # A("--restart")
              /\ Last(cmds[r]).argv[j][1] # "PORT="
        /\ Last(cmds[r]).argv[5] = A(PROD_CONTAINER_NAME)

(***************************************************************************)
(* C17: a webhook whose X-GitHub-Event header is present with a value      *)
(* other than "push" is ignored: it is answered 200 and no docker command  *)
(* is issued, also when its body has the fields of a Docker Hub push.      *)
(***************************************************************************)
OtherEvent(r) == Arrived(r) /\ request[r].event \notin {None, "push"}

C17_OtherEventIgnored ==
    \A r \in Reqs : OtherEvent(r) => Ignored(r)

\* A request with an empty X-GitHub-Event header and the body of a Docker
\* Hub push of latest-dev was deployed to the development container.
C17_Witness ==
    \E r \in Reqs :
        /\ request[r].event = ""
        /\ Payload(r) = Registry("latest-dev")
        /\ Succeeded(r)
        /\ \E c \in Named(containers, DEV_CONTAINER_NAME) : c.by = r

(***************************************************************************)
(* C18: a webhook routed to one environment issues its stop, rm and run    *)
(* against that environment's container name only; handled alone or        *)
(* concurrently with other requests, it leaves the other environment's     *)
(* container as it was.                                                    *)
(***************************************************************************)
\* The container name of the environment a deploying request is routed to.
RoutedName(r) ==
    IF GithubPush(r, Develop) \/ RegistryPush(r, "latest-dev")
    THEN DEV_CONTAINER_NAME
    ELSE PROD_CONTAINER_NAME

C18_OtherEnvironmentUntouched ==
    /\ \A r \in Reqs : \A i \in 1..Len(cmds[r]) :
          LET c == cmds[r][i] IN
          /\ Op(c) \in {"stop", "rm"} => c.argv[3] = A(RoutedName(r))
          /\ Op(c) = "run" => c.argv[5] = A(RoutedName(r))
    /\ \A c \in containers : c.by # 0 => c.name = RoutedName(c.by)
    /\ \A n \in {DEV_CONTAINER_NAME, PROD_CONTAINER_NAME} :
          (\A r \in Reqs : Arrived(r) => RoutedName(r) # n) =>
              Named(containers, n) = Named(before, n)

\* Every request was routed to development and is done, one of them
\* replaced the development container, and the production container is
\* the running one that was there at the start.
C18_Witness ==
    /\ \A r \in Reqs : Done(r) /\ RoutedName(r) = DEV_CONTAINER_NAME
    /\ \E r \in Reqs : Succeeded(r)
    /\ Named(before, DEV_CONTAINER_NAME) # {}
    /\ Named(containers, DEV_CONTAINER_NAME) # Named(before, DEV_CONTAINER_NAME)
    /\ \E c \in Named(before, PROD_CONTAINER_NAME) : c.state = "running"
    /\ Named(containers, PROD_CONTAINER_NAME) = Named(before, PROD_CONTAINER_NAME)

(***************************************************************************)
(* C19: when every pull succeeds and a run fails only because a container  *)
(* of that name exists, then once all the concurrent deployments of an     *)
(* environment have finished, a container bearing the environment's name   *)
(* exists, in every interleaving; a deployment may have returned failure   *)
(* although a container is running.                                        *)
(***************************************************************************)
C19_EnvironmentNeverLeftEmpty ==
    \A n \in {DEV_CONTAINER_NAME, PROD_CONTAINER_NAME} :
        LET deployments == {r \in Reqs : Arrived(r) /\ call[r].container_name = n} IN
        deployments # {} /\ (\A r \in deployments : Done(r)) =>
            Named(containers, n) # {}

\* All the requests deployed development concurrently and have finished;
\* one of them returned failure, and a development container is running.
C19_Witness ==
    /\ \A r \in Reqs : Done(r) /\ call[r].container_name = DEV_CONTAINER_NAME
    /\ \E r \in Reqs : result[r] = "False"
    /\ \E c \in Named(containers, DEV_CONTAINER_NAME) : c.state = "running"
====
